---- MODULE Spec2Model ----
(***************************************************************************)
(* YoloTaskManager (yolo_task_manager_cn/manager.py): admission of         *)
(* training jobs under a global semaphore and per-user semaphores, the     *)
(* thread pool that runs the job bodies, and the stores a job writes to.   *)
(*                                                                         *)
(* manager.py line 155 is written at column 0 inside the try block; the    *)
(* model reads it where its neighbours stand, as the statement between     *)
(* save_model (148) and run_db.save (157).                                 *)
(***************************************************************************)
EXTENDS Integers, Sequences, FiniteSets, TLC

\* ---- bounds of the model
MaxRuns == 2
MaxGlobalLimit == 2

\* ---- inputs
Users == {"alice", "bob"}
RunIds == 1..MaxRuns
\* names are kept as the pieces a prefix test can tell apart: "veh" and "veh_v1"
RunNames == {<<"veh", "_v1">>}
EpochInputs == {-1, 0, 1}
Stamps == {1}
BaseModel == "yolov8n.pt"
DatasetDir == "/datasets/vehicles"

\* Python's None, for a path-valued field
None == <<>>
NoException == "None"

VARIABLES
    global_limit,   \* __init__ argument
    max_workers,    \* size of self.pool
    global_sem,     \* value of self.global_sem
    user_sems,      \* self.user_sems: user -> semaphore object (0: no entry)
    sems,           \* the Semaphore objects created by _get_user_sem: id -> value
    metrics_db,     \* class of self.metrics_db
    _runs,          \* self._runs: run_id -> record
    queue,          \* work queue of self.pool
    future,         \* the Future of each submitted job
    pc,             \* position of each job body
    user_sem,       \* _train_job local: the semaphore object it got
    results,        \* _train_job local: what model.train returned
    idx,            \* _train_job local: loop index
    exc,            \* exception in flight in a job body
    metrics,        \* rows of the metrics table
    on_metrics,     \* calls made to the on_metrics callbacks
    run_db,         \* rows of the runs table: run_id -> data
    files,          \* files under root/<user>/models
    history         \* what was asked of the stores so far (for the claims only)

vars == <<global_limit, max_workers, global_sem, user_sems, sems, metrics_db, _runs, queue,
          future, pc, user_sem, results, idx, exc, metrics, on_metrics,
          run_db, files, history>>

\* ---- helpers
Max2(a, b) == IF a >= b THEN a ELSE b

\* the max_workers argument: 0 stands for None
WorkerArgs == {0, 1}

\* manager.py 41-43
pool_size(limit, arg) == IF arg = 0 THEN Max2(2, limit * 2) ELSE arg

Submitted == DOMAIN _runs

NoResults == [nLoss |-> 0, nMap |-> 0]

\* range(epochs)
Range(n) == 0..(n - 1)

\* the values the training capability reports for epoch index i
LossOf(i) == 10 + i
MapOf(i) == 20 + i

\* Future states of concurrent.futures, as the pool sets them
Running == {r \in RunIds : future[r].state = "RUNNING"}

\* ---- storage/mysql.py: the runs table maps run_id to a JSON text
\* json.dumps of a run record: the members in order, each value with its JSON type
json_dumps(data) ==
    << <<"user_id", "string", data.user_id>>,
       <<"run_name", "string", data.run_name>>,
       <<"base_model", "string", data.base_model>>,
       <<"dataset_dir", "string", data.dataset_dir>>,
       <<"epochs", "number", data.epochs>>,
       IF data.final_model_path = None
       THEN <<"final_model_path", "null", 0>>
       ELSE <<"final_model_path", "string", data.final_model_path>> >>

\* json.loads, lines 105-109: a text that does not parse gives {}
json_loads(text) ==
    IF \A i \in DOMAIN text : text[i][2] \in {"string", "number", "null"}
    THEN [k \in {text[i][1] : i \in DOMAIN text} |->
            LET m == CHOOSE i \in DOMAIN text : text[i][1] = k
            IN IF text[m][2] = "null" THEN None ELSE text[m][3]]
    ELSE <<>>

\* mutant: INSERT IGNORE, the row already stored under run_id is kept
save_keeps_first(table, run_id, data) ==
    IF run_id \in DOMAIN table THEN table ELSE (run_id :> json_dumps(data)) @@ table

\* lines 86-95: REPLACE INTO runs (run_id, data)
save(table, run_id, data) == (run_id :> json_dumps(data)) @@ table

\* lines 97-112: SELECT run_id, data FROM runs
load_all(table) == [r \in DOMAIN table |-> json_loads(table[r])]

\* nothing asked of the stores yet: put is the last data put under each run_id,
\* saved the paths save_model returned, loaded the run ids the last
\* construction read from the runs table, held the global slots taken when the
\* process last stopped
NoHistory ==
    [put |-> <<>>, nput |-> 0, saved |-> <<>>, loaded |-> {}, held |-> 0,
     last |-> [op |-> "none", user |-> "", model |-> <<>>, result |-> <<>>]]

\* a put of data under run_id is added to the history
history_put(h, run_id, data) ==
    [h EXCEPT !.put = (run_id :> data) @@ @,
              !.nput = @ + 1,
              !.last = [op |-> "put", user |-> "", model |-> <<>>, result |-> <<>>]]

\* a save_model call that returned path is added to the history
history_save(h, user_id, model_name, path) ==
    [h EXCEPT !.saved = Append(@, path),
              !.last = [op |-> "save", user |-> user_id, model |-> model_name,
                        result |-> path]]

\* ---- __init__, with self.metrics_db an instance of class cls
InitWith(cls) ==
    /\ global_limit \in 1..MaxGlobalLimit
    /\ \E arg \in WorkerArgs : max_workers = pool_size(global_limit, arg)
    /\ global_sem = global_limit
    /\ user_sems = [u \in Users |-> 0]
    /\ sems = <<>>
    /\ metrics_db = cls
    /\ _runs = <<>>
    /\ queue = <<>>
    /\ future = [r \in RunIds |-> [state |-> "NONE", exception |-> NoException]]
    /\ pc = [r \in RunIds |-> "none"]
    /\ user_sem = [r \in RunIds |-> 0]
    /\ results = [r \in RunIds |-> NoResults]
    /\ idx = [r \in RunIds |-> 0]
    /\ exc = [r \in RunIds |-> NoException]
    /\ metrics = <<>>
    /\ on_metrics = <<>>
    /\ run_db = <<>>
    /\ files = {}
    /\ history = NoHistory

\* manager.py 45: self.metrics_db = MetricsStorage(**mysql_cfg), the base class
Init == InitWith("MetricsStorage")

\* the same manager with metrics_db replaced by the MySQL subclass of metrics.py
InitSink == InitWith("MySQLMetricsStorage")

\* line 62: uuid4 gives an id no run has had; the model takes the least unused one
NewRunId ==
    CHOOSE r \in RunIds : pc[r] = "none" /\ \A q \in RunIds : pc[q] = "none" => r <= q

\* mutant: train takes the global slot itself before it dispatches the job
train_waits_for_slot(user_id, epochs, run_name, has_cb) ==
    LET run_id == NewRunId IN
    /\ \E r \in RunIds : pc[r] = "none"
    /\ global_sem > 0
    /\ _runs' = (run_id :> [user_id |-> user_id,
                             run_name |-> run_name,
                             base_model |-> BaseModel,
                             dataset_dir |-> DatasetDir,
                             epochs |-> epochs,
                             callbacks |-> has_cb,
                             final_model_path |-> None]) @@ _runs
    /\ queue' = Append(queue, run_id)
    /\ future' = [future EXCEPT ![run_id] = [state |-> "PENDING", exception |-> NoException]]
    /\ pc' = [pc EXCEPT ![run_id] = "pending"]
    /\ UNCHANGED <<global_limit, max_workers, global_sem, user_sems, sems, metrics_db,
                   user_sem, results, idx, exc, metrics, on_metrics, run_db, files, history>>

\* ---- train: register the run, hand the job body to the pool, return run_id
train(user_id, epochs, run_name, has_cb) ==
    LET run_id == NewRunId IN
    /\ \E r \in RunIds : pc[r] = "none"
    /\ _runs' = (run_id :> [user_id |-> user_id,
                             run_name |-> run_name,
                             base_model |-> BaseModel,
                             dataset_dir |-> DatasetDir,
                             epochs |-> epochs,
                             callbacks |-> has_cb,
                             final_model_path |-> None]) @@ _runs
    /\ queue' = Append(queue, run_id)
    /\ future' = [future EXCEPT ![run_id] = [state |-> "PENDING", exception |-> NoException]]
    /\ pc' = [pc EXCEPT ![run_id] = "pending"]
    /\ UNCHANGED <<global_limit, max_workers, global_sem, user_sems, sems, metrics_db, user_sem,
                   results, idx, exc, metrics, on_metrics, run_db, files, history>>

\* mutant: the worker reads the oldest work item and leaves it in the queue
StartJob_peek(r) ==
    /\ queue # <<>>
    /\ r = Head(queue)
    /\ pc[r] \in {"pending", "done"}
    /\ Cardinality(Running) < max_workers
    /\ future' = [future EXCEPT ![r].state = "RUNNING"]
    /\ pc' = [pc EXCEPT ![r] = "get_user_sem"]
    /\ UNCHANGED <<global_limit, max_workers, global_sem, user_sems, sems, metrics_db,
                   _runs, queue, user_sem, results, idx, exc, metrics, on_metrics,
                   run_db, files, history>>

\* ---- the pool: an idle worker thread takes the oldest work item
StartJob(r) ==
    /\ queue # <<>>
    /\ r = Head(queue)
    /\ Cardinality(Running) < max_workers
    /\ queue' = Tail(queue)
    /\ future' = [future EXCEPT ![r].state = "RUNNING"]
    /\ pc' = [pc EXCEPT ![r] = "get_user_sem"]
    /\ UNCHANGED <<global_limit, max_workers, global_sem, user_sems, sems, metrics_db, _runs,
                   user_sem, results, idx, exc, metrics, on_metrics, run_db, files, history>>

\* ---- _train_job, lines 112-118: _get_user_sem(user_id)
\* line 52: the membership test
get_user_sem_test(r) ==
    /\ pc[r] = "get_user_sem"
    /\ pc' = [pc EXCEPT ![r] = IF user_sems[_runs[r].user_id] = 0
                                 THEN "install_sem" ELSE "return_sem"]
    /\ UNCHANGED <<global_limit, max_workers, global_sem, user_sems, sems, metrics_db, _runs, queue,
                   future, user_sem, results, idx, exc, metrics, on_metrics, run_db, files, history>>

\* line 53: a new Semaphore(1) is stored under user_id, whatever entry is there
\* by now (the per_user_limit argument of __init__ is not used: the limit is 1)
get_user_sem_install(r) ==
    /\ pc[r] = "install_sem"
    /\ sems' = Append(sems, 1)
    /\ user_sems' = [user_sems EXCEPT ![_runs[r].user_id] = Len(sems) + 1]
    /\ pc' = [pc EXCEPT ![r] = "return_sem"]
    /\ UNCHANGED <<global_limit, max_workers, global_sem, metrics_db, _runs, queue, future, user_sem,
                   results, idx, exc, metrics, on_metrics, run_db, files, history>>

\* line 54: the entry is read and returned
get_user_sem_return(r) ==
    /\ pc[r] = "return_sem"
    /\ user_sem' = [user_sem EXCEPT ![r] = user_sems[_runs[r].user_id]]
    /\ pc' = [pc EXCEPT ![r] = "acquire_global"]
    /\ UNCHANGED <<global_limit, max_workers, global_sem, user_sems, sems, metrics_db, _runs, queue,
                   future, results, idx, exc, metrics, on_metrics, run_db, files, history>>

\* mutant: the global acquire does not wait for a free slot
acquire_global_nowait(r) ==
    /\ pc[r] = "acquire_global"
    /\ global_sem' = global_sem - 1
    /\ pc' = [pc EXCEPT ![r] = "acquire_user"]
    /\ UNCHANGED <<global_limit, max_workers, user_sems, sems, metrics_db, _runs, queue,
                   future, user_sem, results, idx, exc, metrics, on_metrics, run_db, files, history>>

\* mutant: the global acquire waits until two slots are free
acquire_global_needs_two(r) ==
    /\ pc[r] = "acquire_global"
    /\ global_sem > 1
    /\ global_sem' = global_sem - 1
    /\ pc' = [pc EXCEPT ![r] = "acquire_user"]
    /\ UNCHANGED <<global_limit, max_workers, user_sems, sems, metrics_db, _runs, queue, future,
                   user_sem, results, idx, exc, metrics, on_metrics, run_db, files, history>>

\* line 120: self.global_sem.acquire() blocks while the value is 0
acquire_global(r) ==
    /\ pc[r] = "acquire_global"
    /\ global_sem > 0
    /\ global_sem' = global_sem - 1
    /\ pc' = [pc EXCEPT ![r] = "acquire_user"]
    /\ UNCHANGED <<global_limit, max_workers, user_sems, sems, metrics_db, _runs, queue, future,
                   user_sem, results, idx, exc, metrics, on_metrics, run_db, files, history>>

\* line 121: user_sem.acquire()
acquire_user(r) ==
    /\ pc[r] = "acquire_user"
    /\ sems[user_sem[r]] > 0
    /\ sems' = [sems EXCEPT ![user_sem[r]] = @ - 1]
    /\ pc' = [pc EXCEPT ![r] = "train"]
    /\ UNCHANGED <<global_limit, max_workers, global_sem, user_sems, metrics_db, _runs, queue, future,
                   user_sem, results, idx, exc, metrics, on_metrics, run_db, files, history>>

\* lines 124-133: the training capability returns results or raises
model_train(r) ==
    /\ pc[r] = "train"
    /\ \/ /\ exc' = [exc EXCEPT ![r] = "CapabilityError"]
          /\ pc' = [pc EXCEPT ![r] = "release_user"]
          /\ UNCHANGED results
       \/ /\ \E nl \in 0..Max2(_runs[r].epochs, 0), nm \in 0..Max2(_runs[r].epochs, 0) :
                results' = [results EXCEPT ![r] = [nLoss |-> nl, nMap |-> nm]]
          /\ pc' = [pc EXCEPT ![r] = "epochs"]
          /\ UNCHANGED exc
    /\ idx' = [idx EXCEPT ![r] = 0]
    /\ UNCHANGED <<global_limit, max_workers, global_sem, user_sems, sems, metrics_db, _runs, queue,
                   future, user_sem, metrics, on_metrics, run_db, files, history>>

\* metrics.py: what save_metric of each class can do
save_metric_outcomes(cls) ==
    IF cls = "MetricsStorage" THEN {"NotImplementedError"} ELSE {"ok", "PersistenceError"}

\* mutant: the callback is called before save_metric
epoch_callback_first(r) ==
    LET i == idx[r]
        loss == IF i < results[r].nLoss THEN LossOf(i) ELSE 0
        mAP == IF i < results[r].nMap THEN MapOf(i) ELSE 0
    IN
    /\ pc[r] = "epochs"
    /\ i \in Range(_runs[r].epochs)
    /\ \E out \in save_metric_outcomes(metrics_db), cb_raises \in BOOLEAN :
          /\ on_metrics' = IF _runs[r].callbacks
                           THEN Append(on_metrics, [run_id |-> r, epoch |-> i + 1,
                                                    loss |-> loss, mAP |-> mAP,
                                                    raised |-> cb_raises])
                           ELSE on_metrics
          /\ IF out = "ok"
             THEN /\ metrics' = Append(metrics, [run_id |-> r, epoch |-> i + 1,
                                                  loss |-> loss, mAP |-> mAP])
                  /\ idx' = [idx EXCEPT ![r] = i + 1]
                  /\ UNCHANGED <<exc, pc>>
             ELSE /\ exc' = [exc EXCEPT ![r] = out]
                  /\ pc' = [pc EXCEPT ![r] = "release_user"]
                  /\ UNCHANGED <<metrics, idx>>
    /\ UNCHANGED <<global_limit, max_workers, global_sem, user_sems, sems, metrics_db, _runs, queue,
                   future, user_sem, results, run_db, files, history>>

\* lines 134-145: one iteration of the epoch loop
epoch(r) ==
    LET i == idx[r]
        loss == IF i < results[r].nLoss THEN LossOf(i) ELSE 0
        mAP == IF i < results[r].nMap THEN MapOf(i) ELSE 0
    IN
    /\ pc[r] = "epochs"
    /\ i \in Range(_runs[r].epochs)
    /\ \E out \in save_metric_outcomes(metrics_db), cb_raises \in BOOLEAN :
          IF out = "ok"
          THEN /\ metrics' = Append(metrics, [run_id |-> r, epoch |-> i + 1,
                                               loss |-> loss, mAP |-> mAP])
               \* lines 141-145: whatever the callback raises is dropped
               /\ on_metrics' = IF _runs[r].callbacks
                                THEN Append(on_metrics, [run_id |-> r, epoch |-> i + 1,
                                                         loss |-> loss, mAP |-> mAP,
                                                         raised |-> cb_raises])
                                ELSE on_metrics
               /\ idx' = [idx EXCEPT ![r] = i + 1]
               /\ UNCHANGED <<exc, pc>>
          ELSE /\ exc' = [exc EXCEPT ![r] = out]
               /\ pc' = [pc EXCEPT ![r] = "release_user"]
               /\ UNCHANGED <<metrics, on_metrics, idx>>
    /\ UNCHANGED <<global_limit, max_workers, global_sem, user_sems, sems, metrics_db, _runs, queue,
                   future, user_sem, results, run_db, files, history>>

\* local_fs.py 30-42: the stored file of save_model
dest_path(user_id, model_name, timestamp) ==
    [user |-> user_id, name |-> model_name, ts |-> timestamp, suffix |-> ".pt"]

\* str(saved_path)
str(p) == <<p.user, "models", p.name, p.ts, p.suffix>>

\* ---- storage/local_fs.py
\* line 39: the labels file beside a stored model
labels_path(p) == [p EXCEPT !.suffix = ".pt.labels"]

\* the file's name in root/<user>/models, line 35
file_name(f) == f.name \o <<"_", f.ts, f.suffix>>

\* models_dir.glob(f"{model_name}*"): the names that begin with model_name
glob_match(model_name, f) ==
    /\ Len(model_name) <= Len(file_name(f))
    /\ SubSeq(file_name(f), 1, Len(model_name)) = model_name

\* p.stat().st_mtime of a stored model: shutil.copy2 (line 37) gives the copy
\* the modification time of its source, the timestamp in its name
st_mtime(f) == f.ts

\* lines 30-42: the files after save_model; timestamp is st_mtime_ns of the source
LocalFS_save_model(fs, user_id, timestamp, model_name, has_labels) ==
    LET p == dest_path(user_id, model_name, timestamp) IN
    fs \cup {p} \cup (IF has_labels THEN {labels_path(p)} ELSE {})

\* lines 44-57: the models list_models describes
LocalFS_list_models(fs, user_id) ==
    {f \in fs : f.user = user_id /\ f.suffix # ".pt.labels"}

\* lines 59-70: the files both loops of delete_model unlink
delete_matches(fs, user_id, model_name) ==
    {f \in fs : f.user = user_id /\ glob_match(model_name, f)}

LocalFS_delete_model(fs, user_id, model_name) == fs \ delete_matches(fs, user_id, model_name)

\* lines 74-78
candidates(fs, user_id, model_name) ==
    {f \in fs : f.user = user_id /\ glob_match(model_name, f) /\ f.suffix # ".pt.labels"}

\* lines 79-82: the paths get_model_path can return (none: FileNotFoundError);
\* among candidates of equal st_mtime the stable sort keeps the order of glob
LocalFS_get_model_path(fs, user_id, model_name) ==
    {f \in candidates(fs, user_id, model_name) :
        \A g \in candidates(fs, user_id, model_name) : st_mtime(g) <= st_mtime(f)}

\* lines 147-155: save_model, then the path is put in the record
save_model(r) ==
    /\ pc[r] = "epochs"
    /\ idx[r] \notin Range(_runs[r].epochs)
    /\ \/ /\ exc' = [exc EXCEPT ![r] = "StorageError"]
          /\ pc' = [pc EXCEPT ![r] = "release_user"]
          /\ UNCHANGED <<files, _runs, history>>
       \/ \E t \in Stamps, has_labels \in BOOLEAN :
            LET p == dest_path(_runs[r].user_id, _runs[r].run_name, t) IN
            /\ files' = LocalFS_save_model(files, _runs[r].user_id, t, _runs[r].run_name,
                                           has_labels)
            /\ history' = history_save(history, _runs[r].user_id, _runs[r].run_name, p)
            /\ _runs' = [_runs EXCEPT ![r].final_model_path = str(p)]
            /\ pc' = [pc EXCEPT ![r] = "run_db_save"]
            /\ UNCHANGED exc
    /\ UNCHANGED <<global_limit, max_workers, global_sem, user_sems, sems, metrics_db, queue, future,
                   user_sem, results, idx, metrics, on_metrics, run_db>>

\* the data handed to run_db.save, lines 159-166
run_data(r) ==
    [user_id |-> _runs[r].user_id,
     run_name |-> _runs[r].run_name,
     base_model |-> _runs[r].base_model,
     dataset_dir |-> _runs[r].dataset_dir,
     epochs |-> _runs[r].epochs,
     final_model_path |-> _runs[r].final_model_path]

\* lines 157-167: run_db.save stores the row, or the driver raises
run_db_save(r) ==
    /\ pc[r] = "run_db_save"
    /\ \/ /\ exc' = [exc EXCEPT ![r] = "PersistenceError"]
          /\ UNCHANGED <<run_db, history>>
       \/ /\ run_db' = save(run_db, r, run_data(r))
          /\ history' = history_put(history, r, run_data(r))
          /\ UNCHANGED exc
    /\ pc' = [pc EXCEPT ![r] = "release_user"]
    /\ UNCHANGED <<global_limit, max_workers, global_sem, user_sems, sems, metrics_db, _runs, queue,
                   future, user_sem, results, idx, metrics, on_metrics, files>>

\* mutant: the release stands at the end of the try block, not in a finally
release_user_in_try(r) ==
    /\ pc[r] = "release_user"
    /\ sems' = IF exc[r] = NoException
               THEN [sems EXCEPT ![user_sem[r]] = @ + 1]
               ELSE sems
    /\ pc' = [pc EXCEPT ![r] = "release_global"]
    /\ UNCHANGED <<global_limit, max_workers, global_sem, user_sems, metrics_db, _runs,
                   queue, future, user_sem, results, idx, exc, metrics, on_metrics,
                   run_db, files, history>>

\* line 169, in the finally block
release_user(r) ==
    /\ pc[r] = "release_user"
    /\ sems' = [sems EXCEPT ![user_sem[r]] = @ + 1]
    /\ pc' = [pc EXCEPT ![r] = "release_global"]
    /\ UNCHANGED <<global_limit, max_workers, global_sem, user_sems, metrics_db, _runs, queue, future,
                   user_sem, results, idx, exc, metrics, on_metrics, run_db, files, history>>

\* line 170; the job body then returns or raises and the pool completes its Future
release_global(r) ==
    /\ pc[r] = "release_global"
    /\ global_sem' = global_sem + 1
    /\ future' = [future EXCEPT ![r] = [state |-> "FINISHED", exception |-> exc[r]]]
    /\ pc' = [pc EXCEPT ![r] = "done"]
    /\ user_sem' = [user_sem EXCEPT ![r] = 0]
    /\ results' = [results EXCEPT ![r] = NoResults]
    /\ idx' = [idx EXCEPT ![r] = 0]
    /\ exc' = [exc EXCEPT ![r] = NoException]
    /\ UNCHANGED <<global_limit, max_workers, user_sems, sems, metrics_db, _runs, queue,
                   metrics, on_metrics, run_db, files, history>>

\* ---- what the claims speak of
\* a job holds a global slot from line 120 to line 170
HoldsGlobal(r) ==
    pc[r] \in {"acquire_user", "train", "epochs", "run_db_save", "release_user",
               "release_global"}

\* the execution window: both slots held, lines 122-168
InWindow(r) == pc[r] \in {"train", "epochs", "run_db_save", "release_user"}

\* the run's state as its Future shows it
RunState(r) ==
    CASE future[r].state = "NONE" -> "Unsubmitted"
      [] future[r].state = "PENDING" -> "Queued"
      [] future[r].state = "RUNNING" -> "Running"
      [] future[r].state = "FINISHED" /\ future[r].exception = NoException -> "Completed"
      [] OTHER -> "Failed"

Terminal(r) == RunState(r) \in {"Completed", "Failed"}

MetricsOf(r) == SelectSeq(metrics, LAMBDA row : row.run_id = r)
CallbacksOf(r) == SelectSeq(on_metrics, LAMBDA call : call.run_id = r)

\* get_model_path would find the file the path names
Resolvable(path) == \E f \in files : str(f) = path

\* ---- storage/mysql.py used on its own: run_db.save(run_id, data) by any caller
MaxPuts == 3

StoreRecords ==
    [user_id : {"alice"}, run_name : RunNames, base_model : {BaseModel},
     dataset_dir : {DatasetDir}, epochs : {0, 1},
     final_model_path : {None, str(dest_path("alice", <<"veh", "_v1">>, 1))}]

put(run_id, data) ==
    /\ history.nput < MaxPuts
    /\ run_db' = save(run_db, run_id, data)
    /\ history' = history_put(history, run_id, data)
    /\ UNCHANGED <<global_limit, max_workers, global_sem, user_sems, sems, metrics_db, _runs, queue,
                   future, pc, user_sem, results, idx, exc, metrics, on_metrics, files>>

\* ---- storage/local_fs.py used on its own: save_model and delete_model by any caller
MaxSaves == 3

ModelNames == {<<"veh">>, <<"veh", "_v1">>}

\* st_mtime_ns of the source files handed to save_model
SrcStamps == {1, 2}

FsSave(user_id, model_name, timestamp, has_labels) ==
    /\ Len(history.saved) < MaxSaves
    /\ files' = LocalFS_save_model(files, user_id, timestamp, model_name, has_labels)
    /\ history' = history_save(history, user_id, model_name,
                               dest_path(user_id, model_name, timestamp))
    /\ UNCHANGED <<global_limit, max_workers, global_sem, user_sems, sems, metrics_db, _runs, queue,
                   future, pc, user_sem, results, idx, exc, metrics, on_metrics, run_db>>

\* delete_model returns whether it unlinked a file
FsDelete(user_id, model_name) ==
    /\ files' = LocalFS_delete_model(files, user_id, model_name)
    /\ history' = [history EXCEPT !.last = [op |-> "delete", user |-> user_id,
                                            model |-> model_name,
                                            result |-> delete_matches(files, user_id,
                                                                      model_name) # {}]]
    /\ UNCHANGED <<global_limit, max_workers, global_sem, user_sems, sems, metrics_db, _runs, queue,
                   future, pc, user_sem, results, idx, exc, metrics, on_metrics, run_db>>

\* mutant: the new manager hands the records it loaded to its pool
Restart_resumes ==
    /\ global_sem' = global_limit
    /\ user_sems' = [u \in Users |-> 0]
    /\ sems' = <<>>
    /\ _runs' = load_all(run_db)
    /\ queue' = <<>>
    /\ future' = [r \in RunIds |-> IF r \in DOMAIN run_db
                                   THEN [state |-> "RUNNING", exception |-> NoException]
                                   ELSE [state |-> "NONE", exception |-> NoException]]
    /\ pc' = [r \in RunIds |-> IF r \in DOMAIN run_db THEN "get_user_sem"
                               ELSE IF pc[r] = "none" THEN "none" ELSE "lost"]
    /\ user_sem' = [r \in RunIds |-> 0]
    /\ results' = [r \in RunIds |-> NoResults]
    /\ idx' = [r \in RunIds |-> 0]
    /\ exc' = [r \in RunIds |-> NoException]
    /\ history' = [history EXCEPT !.loaded = DOMAIN run_db,
                                  !.held = Cardinality({r \in RunIds : HoldsGlobal(r)}),
                                  !.last = [op |-> "restart", user |-> "", model |-> <<>>,
                                            result |-> <<>>]]
    /\ UNCHANGED <<global_limit, max_workers, metrics_db, metrics, on_metrics, run_db, files>>

\* ---- the process stops (crash or shutdown) and a manager is constructed again
\* with the same arguments, __init__ lines 25-48: new semaphores, an empty
\* registry of tenant semaphores, a new pool, and self._runs read from the runs
\* table. The threads, their locals and the Futures of the old process are gone;
\* the tables and the files stay. A run id of the old process is not given again.
Restart ==
    /\ global_sem' = global_limit
    /\ user_sems' = [u \in Users |-> 0]
    /\ sems' = <<>>
    /\ _runs' = load_all(run_db)
    /\ queue' = <<>>
    /\ future' = [r \in RunIds |-> [state |-> "NONE", exception |-> NoException]]
    /\ pc' = [r \in RunIds |-> IF pc[r] = "none" THEN "none" ELSE "lost"]
    /\ user_sem' = [r \in RunIds |-> 0]
    /\ results' = [r \in RunIds |-> NoResults]
    /\ idx' = [r \in RunIds |-> 0]
    /\ exc' = [r \in RunIds |-> NoException]
    /\ history' = [history EXCEPT !.loaded = DOMAIN run_db,
                                  !.held = Cardinality({r \in RunIds : HoldsGlobal(r)}),
                                  !.last = [op |-> "restart", user |-> "", model |-> <<>>,
                                            result |-> <<>>]]
    /\ UNCHANGED <<global_limit, max_workers, metrics_db, metrics, on_metrics, run_db, files>>

Next ==
    \/ \E u \in Users, e \in EpochInputs, n \in RunNames, cb \in BOOLEAN : train(u, e, n, cb)
    \/ \E r \in RunIds : StartJob(r)
    \/ \E r \in RunIds : get_user_sem_test(r)
    \/ \E r \in RunIds : get_user_sem_install(r)
    \/ \E r \in RunIds : get_user_sem_return(r)
    \/ \E r \in RunIds : acquire_global(r)
    \/ \E r \in RunIds : acquire_user(r)
    \/ \E r \in RunIds : model_train(r)
    \/ \E r \in RunIds : epoch(r)
    \/ \E r \in RunIds : save_model(r)
    \/ \E r \in RunIds : run_db_save(r)
    \/ \E r \in RunIds : release_user(r)
    \/ \E r \in RunIds : release_global(r)

Spec == Init /\ [][Next]_vars

SpecSink == InitSink /\ [][Next]_vars

\* the steps of the thread that runs job r: the pool starts every queued item
\* when a worker is free, the operating system schedules every thread that can
\* run, and every call a job makes returns or raises
JobStep(r) ==
    \/ StartJob(r)
    \/ get_user_sem_test(r)
    \/ get_user_sem_install(r)
    \/ get_user_sem_return(r)
    \/ acquire_global(r)
    \/ acquire_user(r)
    \/ model_train(r)
    \/ epoch(r)
    \/ save_model(r)
    \/ run_db_save(r)
    \/ release_user(r)
    \/ release_global(r)

LiveSpec == Init /\ [][Next]_vars /\ \A r \in RunIds : WF_vars(JobStep(r))

\* the manager of SpecSink where the first run asks for MaxEpochs epochs with a
\* callback, so that the epoch loop of its job makes more than one iteration,
\* and the runs after it ask for no epoch and compete with it for the slots,
\* the files and the runs table
MaxEpochs == 2

NextOrder ==
    \/ \E u \in Users, n \in RunNames :
          train(u, IF Submitted = {} THEN MaxEpochs ELSE 0, n, Submitted = {})
    \/ \E r \in RunIds : StartJob(r)
    \/ \E r \in RunIds : get_user_sem_test(r)
    \/ \E r \in RunIds : get_user_sem_install(r)
    \/ \E r \in RunIds : get_user_sem_return(r)
    \/ \E r \in RunIds : acquire_global(r)
    \/ \E r \in RunIds : acquire_user(r)
    \/ \E r \in RunIds : model_train(r)
    \/ \E r \in RunIds : epoch(r)
    \/ \E r \in RunIds : save_model(r)
    \/ \E r \in RunIds : run_db_save(r)
    \/ \E r \in RunIds : release_user(r)
    \/ \E r \in RunIds : release_global(r)

SpecOrder == InitSink /\ [][NextOrder]_vars

\* the manager with restarts
NextRecovery ==
    \/ Next
    \/ Restart

SpecRecovery == Init /\ [][NextRecovery]_vars

\* the runs table under any sequence of saves, and managers constructed on it
NextStore ==
    \/ \E run_id \in RunIds, data \in StoreRecords : put(run_id, data)
    \/ Restart

SpecStore == Init /\ [][NextStore]_vars

\* the model files under any sequence of saves and deletes
NextFS ==
    \/ \E u \in Users, n \in ModelNames, t \in SrcStamps, l \in BOOLEAN : FsSave(u, n, t, l)
    \/ \E u \in Users, n \in ModelNames : FsDelete(u, n)

SpecFS == Init /\ [][NextFS]_vars

\* the position in history.saved of the last save_model call that returned f
SaveIndex(f) ==
    CHOOSE i \in DOMAIN history.saved :
        /\ history.saved[i] = f
        /\ \A j \in DOMAIN history.saved : history.saved[j] = f => j <= i

\* ---------------------------------------------------------------- claims

\* C1: with the per-tenant limit of 1, no two jobs of one tenant are inside the
\* execution window of _train_job (both slots held) at the same time.
AtMostOneJobPerTenantInWindow ==
    \A r1 \in Submitted, r2 \in Submitted :
        (r1 # r2 /\ _runs[r1].user_id = _runs[r2].user_id)
            => ~(InWindow(r1) /\ InWindow(r2))

\* C2: the number of jobs holding a global slot (and so the number executing
\* the training capability) never exceeds global_limit, and the semaphore's
\* value accounts for exactly those jobs.
GlobalLimitRespected ==
    /\ Cardinality({r \in RunIds : HoldsGlobal(r)}) <= global_limit
    /\ global_sem = global_limit - Cardinality({r \in RunIds : HoldsGlobal(r)})

\* C2 witness: under global_limit 1 one job holds the slot while a job of
\* another tenant waits at the global acquire.
GlobalLimitWitness ==
    /\ global_limit = 1
    /\ \E r1 \in Submitted, r2 \in Submitted :
          /\ _runs[r1].user_id # _runs[r2].user_id
          /\ pc[r1] = "train"
          /\ pc[r2] = "acquire_global"

\* C3: every acquire is matched by one release on every exit path: no
\* semaphore value exceeds its limit, each value accounts for exactly the jobs
\* that hold it, and once every job has finished all semaphores are back at
\* their limits.
SlotsReleasedOnEveryPath ==
    /\ global_sem <= global_limit
    /\ \A i \in DOMAIN sems :
          /\ sems[i] <= 1
          /\ sems[i] = 1 - Cardinality({r \in RunIds : InWindow(r) /\ user_sem[r] = i})
    /\ (\A r \in Submitted : pc[r] = "done")
          => /\ global_sem = global_limit
             /\ \A i \in DOMAIN sems : sems[i] = 1

\* C3 witness: all jobs have finished, one by an error of the training
\* capability and one by an error of run_db.save.
SlotsReleasedWitness ==
    /\ Submitted = RunIds
    /\ \A r \in Submitted : pc[r] = "done"
    /\ \E r \in Submitted : future[r].exception = "CapabilityError"
    /\ \E r \in Submitted : future[r].exception = "PersistenceError"

\* C4: train never waits for a slot, a worker or the training: whatever the
\* semaphores and the pool hold, a further train call is enabled for every
\* input, and every run_id it has returned is in the registry with its job
\* body handed to the pool, also while that job has not started.
SubmitNeverBlocks ==
    /\ (\E r \in RunIds : pc[r] = "none")
          => \A u \in Users, e \in EpochInputs, n \in RunNames, cb \in BOOLEAN :
                ENABLED train(u, e, n, cb)
    /\ \A r \in RunIds :
          future[r].state # "NONE" => r \in Submitted
    /\ \A k \in DOMAIN queue :
          queue[k] \in Submitted /\ RunState(queue[k]) = "Queued"
    /\ \A r \in Submitted :
          RunState(r) = "Queued" => \E k \in DOMAIN queue : queue[k] = r

\* C4 witness: every global slot and the tenant's slot are held, every worker
\* of the pool is busy, and a run of that tenant has been registered by train
\* while its job body still waits in the queue.
SubmitWhileSaturated ==
    \E r1 \in Submitted, r2 \in Submitted :
        /\ _runs[r1].user_id = _runs[r2].user_id
        /\ InWindow(r1)
        /\ global_sem = 0
        /\ Cardinality(Running) = max_workers
        /\ RunState(r2) = "Queued"
        /\ queue # <<>> /\ Head(queue) = r2

\* C5: final_model_path is non-null only for runs that are Completed: a run
\* that ended Failed has no final path, neither in the registry nor in the
\* runs table.
FailedRunHasNoFinalPath ==
    \A r \in Submitted :
        RunState(r) = "Failed"
            => /\ _runs[r].final_model_path = None
               /\ r \in DOMAIN run_db => load_all(run_db)[r].final_model_path = None

\* C6: a run's state moves only along Queued -> Running -> Completed or
\* Queued -> Running -> Failed, and once it is Completed or Failed its state,
\* its record and its final path never change again.
RunStateMachine ==
    [][\A r \in RunIds :
          /\ <<RunState(r), RunState(r)'>> \in
                {<<"Unsubmitted", "Unsubmitted">>, <<"Unsubmitted", "Queued">>,
                 <<"Queued", "Queued">>, <<"Queued", "Running">>,
                 <<"Running", "Running">>, <<"Running", "Completed">>,
                 <<"Running", "Failed">>,
                 <<"Completed", "Completed">>, <<"Failed", "Failed">>}
          /\ Terminal(r) => /\ _runs'[r] = _runs[r]
                            /\ future'[r] = future[r]
                            /\ pc'[r] = pc[r]]_vars

\* C6 witness: one run is Completed with its final path set and another run
\* is Failed, while a step of the system is still to come.
TerminalRunsWitness ==
    \E r1 \in Submitted, r2 \in Submitted :
        /\ RunState(r1) = "Completed"
        /\ _runs[r1].final_model_path # None
        /\ pc[r2] = "release_global"
        /\ exc[r2] # NoException

\* C7: a run with E epochs whose training succeeded and whose artifact and
\* record were stored has E rows in the metrics table, for the epochs 1..E in
\* order, and ends Completed with a final path that names a stored file.
SuccessfulRunRecordsEveryEpoch ==
    \A r \in Submitted :
        (future[r].state = "FINISHED"
            /\ future[r].exception \notin {"CapabilityError", "StorageError", "PersistenceError"})
            => /\ RunState(r) = "Completed"
               /\ Len(MetricsOf(r)) = Max2(_runs[r].epochs, 0)
               /\ \A k \in DOMAIN MetricsOf(r) : MetricsOf(r)[k].epoch = k
               /\ _runs[r].final_model_path # None
               /\ Resolvable(_runs[r].final_model_path)

\* C8: for a run with an on_metrics callback, whatever the callback raises,
\* the callback is invoked for every epoch 1..E, every epoch's metric row is
\* stored, the artifact is saved and the run ends Completed.
CallbackFailureIsolated ==
    \A r \in Submitted :
        (future[r].state = "FINISHED"
            /\ _runs[r].callbacks
            /\ _runs[r].epochs >= 1
            /\ future[r].exception \notin {"CapabilityError", "StorageError", "PersistenceError"})
            => /\ Len(CallbacksOf(r)) = _runs[r].epochs
               /\ Len(MetricsOf(r)) = _runs[r].epochs
               /\ Resolvable(_runs[r].final_model_path)
               /\ RunState(r) = "Completed"

\* C9: a PersistenceError raised by save_metric or by run_db.save does not
\* abort the job: it is never the exception in flight in a job body nor the
\* exception a job's Future ends with.
PersistenceFailureNotFatal ==
    \A r \in Submitted :
        /\ exc[r] # "PersistenceError"
        /\ future[r].exception # "PersistenceError"

\* C10: a train call with a negative epoch count is rejected: no run with
\* epochs < 0 is in the registry, is queued in the pool or holds a slot.
NegativeEpochsRejected ==
    /\ \A r \in Submitted : _runs[r].epochs >= 0
    /\ \A r \in RunIds : (pc[r] # "none") => _runs[r].epochs >= 0

\* C11: every run that has entered Running (and every run that has ended,
\* Completed or Failed) has a row in the runs table, so that load_all after a
\* crash contains its run_id.
RunningRunsArePersisted ==
    \A r \in Submitted :
        RunState(r) \in {"Running", "Completed", "Failed"} => r \in DOMAIN load_all(run_db)

\* C16: at most one Semaphore object is ever created per tenant, and the jobs
\* of one tenant that have looked their semaphore up all got the same object.
OneSemaphorePerTenant ==
    /\ Len(sems) <= Cardinality({u \in Users : user_sems[u] # 0})
    /\ \A r, q \in RunIds :
          (user_sem[r] # 0 /\ user_sem[q] # 0 /\ _runs[r].user_id = _runs[q].user_id)
              => user_sem[r] = user_sem[q]

\* C17: no job holds a global slot while it is blocked on its tenant's
\* semaphore.
NoHoldAndWait ==
    \A r \in RunIds : ~(pc[r] = "acquire_user" /\ sems[user_sem[r]] = 0)

RecoveryOnlyLoads ==
    /\ \A r \in history.loaded :
          /\ pc[r] = "lost"
          /\ future[r].state = "NONE"
          /\ user_sem[r] = 0
          /\ \A i \in DOMAIN queue : queue[i] # r
          /\ r \in DOMAIN _runs
          /\ _runs[r] = load_all(run_db)[r]
    /\ global_sem = global_limit - Cardinality({r \in RunIds : HoldsGlobal(r)})
    /\ \A i \in DOMAIN sems :
          sems[i] = 1 - Cardinality({r \in RunIds : InWindow(r) /\ user_sem[r] = i})
    /\ (history.last.op = "restart" /\ \A r \in RunIds : pc[r] \in {"none", "lost", "pending"}) =>
          /\ global_sem = global_limit
          /\ sems = <<>>
          /\ \A u \in Users : user_sems[u] = 0

\* C19 witness: the process stopped while a job held a global slot, the new
\* manager loaded a record, and a job of the new manager is in its window.
RecoveryWitness ==
    /\ history.loaded # {}
    /\ history.held >= 1
    /\ \E q \in RunIds \ history.loaded : InWindow(q)

\* C13: every save_model call returns a path no earlier save_model call
\* returned, so no stored file is overwritten.
SavedNamesDistinct ==
    \A i, j \in DOMAIN history.saved : i < j => history.saved[i] # history.saved[j]

\* C14: right after save_model(user, src, model_name) returned P,
\* get_model_path(user, model_name) returns P; right after
\* delete_model(user, model_name), get_model_path(user, model_name) finds
\* nothing.
ArtifactRoundTrip ==
    /\ history.last.op = "save" =>
          LocalFS_get_model_path(files, history.last.user, history.last.model)
              = {history.last.result}
    /\ history.last.op = "delete" =>
          LocalFS_get_model_path(files, history.last.user, history.last.model) = {}

\* C15: when a tenant has several stored models of one name, and no other
\* file matches that name, get_model_path returns the one saved last.
LatestSaveSelected ==
    \A u \in Users, n \in ModelNames :
        LET c == candidates(files, u, n) IN
        (Cardinality(c) >= 2 /\ \A f \in c : f.name = n) =>
            LocalFS_get_model_path(files, u, n)
                = {CHOOSE f \in c : \A g \in c : SaveIndex(g) <= SaveIndex(f)}

\* C20: delete_model(user, model_name) removes the files stored under
\* model_name for that user, labels included, and no other file, and it returns
\* whether it removed anything.
DeleteFrame ==
    [][\A u \in Users, n \in ModelNames :
          FsDelete(u, n) =>
              /\ files' = {f \in files : ~(f.user = u /\ f.name = n)}
              /\ history'.last.result = (files' # files)]_vars

\* C18: under fair scheduling every job handed to the pool is started, takes
\* the global and the tenant slot, ends, and has given both slots back.
EveryJobFinishes ==
    \A r \in RunIds :
        (future[r].state = "PENDING") ~>
            (future[r].state = "FINISHED" /\ pc[r] = "done" /\ user_sem[r] = 0)

\* C18 witness: with global_limit 1, two jobs of one tenant, which contend for
\* the global and for the tenant slot, have both finished and all slots are free.
EveryJobFinishesWitness ==
    /\ global_limit = 1
    /\ Submitted = RunIds
    /\ \A r \in RunIds : future[r].state = "FINISHED" /\ _runs[r].user_id = "alice"
    /\ global_sem = global_limit
    /\ \A i \in DOMAIN sems : sems[i] = 1

====
